---- MODULE Spec2Model ----
(***************************************************************************)
(* KB Dojo (src/app.py): the article pipeline process_article_async, the   *)
(* batch orchestrator process_multiple_articles_async and the presentation *)
(* functions display_results / create_zip_download, as one state machine.  *)
(*                                                                         *)
(* Python strings are sequences of tokens: SP is one whitespace character, *)
(* every other token is one opaque run of non-whitespace text. An f-string *)
(* is the concatenation of its parts. None is the reserved value NoneVal.  *)
(***************************************************************************)
EXTENDS Integers, Sequences, FiniteSets, TLC

VARIABLES
    titles,               \* process_multiple_articles_async: titles
    contents,             \* process_multiple_articles_async: contents
    options,              \* options['Actions'], ['Perspective'], ['Translation Languages']
    pc,                   \* position of the single control thread
    total_operations,     \* app.py:142
    completed_operations, \* app.py:145
    progress,             \* value last handed to progress_bar.progress, in percent
    all_results,          \* app.py:141
    i,                    \* 1-based position of the for loop of app.py:147
    results,              \* process_article_async: results
    processed_content,    \* process_article_async: processed_content
    j,                    \* 1-based position of the for loop of app.py:69
    inflight,             \* requests sent to the model provider and not yet answered
    api_log,              \* every request sent to the model provider, in order
    last_response,        \* what the provider did with the latest request
    sectioned,            \* articles for which create_perspective_sections was called
    faults,               \* failures injected so far (provider and exporter)
    rendered,             \* display_results: one entry per expander, in order
    zip_file              \* create_zip_download: the archive offered for download

vars == <<titles, contents, options, pc, total_operations, completed_operations,
          progress, all_results, i, results, processed_content, j, inflight,
          api_log, last_response, sectioned, faults, rendered, zip_file>>

----------------------------------------------------------------------------
(* Bounds of the model *)

MaxArticles == 2
MaxLangs == 2
MaxFaults == 1

----------------------------------------------------------------------------
(* Values *)

NoneVal == <<"<None>">>
SP == " "
ApiError == <<"<APIError>">>

GENERATE == "Generate Content"
REAUTHOR == "Reauthor Content"
FORMAT == "Format to Template"
TRANSLATE == "Translate"
AllActions == {GENERATE, REAUTHOR, FORMAT, TRANSLATE}

TitleList == <<"Article1", "Article2", "Article3", "Article4">>
LanguageList == <<"French", "Spanish", "German", "Italian">>

Contents == {<<>>, <<"write", SP, "recipe">>}
Perspectives == {<<>>, <<"Beginner">>}

\* What the provider can answer: an API error, whitespace only, or text.
Completions == {ApiError, <<SP>>, <<SP, "generated", SP>>}

Min(a, b) == IF a <= b THEN a ELSE b

----------------------------------------------------------------------------
(* Pure functions *)

RECURSIVE LStrip(_)
LStrip(s) == IF s # <<>> /\ Head(s) = SP THEN LStrip(Tail(s)) ELSE s

RECURSIVE RStrip(_)
RStrip(s) ==
    IF s # <<>> /\ s[Len(s)] = SP THEN RStrip(SubSeq(s, 1, Len(s) - 1)) ELSE s

\* str.strip()
Strip(s) == RStrip(LStrip(s))

\* app.py:22-38: the trimmed completion, or None when the call raised.
send_to_openai_api_async(raw) ==
    IF raw = ApiError THEN NoneVal ELSE Strip(raw)

\* A generate_content that hands the provider's answer on without the fallback.
GenerateWithoutFallback(content, raw) == send_to_openai_api_async(raw)

\* app.py:94-98
generate_content(content, raw) ==
    LET generated_content == send_to_openai_api_async(raw)
    IN  IF generated_content = NoneVal \/ Strip(generated_content) = <<>>
        THEN content
        ELSE generated_content

\* app.py:121-125
reauthor_content(content, raw) ==
    LET reauthored_content == send_to_openai_api_async(raw)
    IN  IF reauthored_content = NoneVal \/ Strip(reauthored_content) = <<>>
        THEN content
        ELSE reauthored_content

\* utils/prompt_utils.py translate_content (utils package): the translation, or the
\* content it was given when the call fails or returns only whitespace.
prompt_utils_translate_content(content, raw) ==
    LET translated == send_to_openai_api_async(raw)
    IN  IF translated = NoneVal \/ Strip(translated) = <<>>
        THEN content
        ELSE translated

\* utils/prompt_utils.py create_perspective_sections (utils package): a local
\* restructuring that gives every perspective label a section of its own.
RECURSIVE create_perspective_sections(_, _)
create_perspective_sections(content, perspectives) ==
    IF perspectives = <<>>
    THEN content
    ELSE create_perspective_sections(
             content \o <<SP, "##", Head(perspectives)>>, Tail(perspectives))

\* utils/pandoc_utils.py save_as_word (utils package): the document, or None when
\* the conversion failed.
save_as_word(markdown, converted) ==
    IF converted THEN <<"<docx>">> \o markdown ELSE NoneVal

\* A content stage that tests Reauthor/Format before Generate.
ReauthorFirst(actions) ==
    IF REAUTHOR \in actions \/ FORMAT \in actions THEN "reauthor"
    ELSE IF GENERATE \in actions THEN "generate"
    ELSE "none"

\* app.py:55 and 58: which model call the content stage makes.
ContentStageCall(actions) ==
    IF GENERATE \in actions THEN "generate"
    ELSE IF REAUTHOR \in actions \/ FORMAT \in actions THEN "reauthor"
    ELSE "none"

\* app.py:63
ApplyPerspectives(actions, perspectives) ==
    perspectives # <<>> /\ REAUTHOR \notin actions

\* A total that leaves the translation passes out.
TotalWithoutTranslations(ts, opts) == Len(ts) * Cardinality(opts.Actions)

\* app.py:142-143
TotalOperations(ts, opts) ==
    Len(ts) * (Cardinality(opts.Actions)
                 + (IF TRANSLATE \in opts.Actions THEN Len(opts.Languages) ELSE 0))

\* A count that adds the languages whether or not Translate is requested.
CountLanguagesAlways(opts) == Cardinality(opts.Actions) + Len(opts.Languages)

\* app.py:151-152: what one finished article adds to completed_operations.
OperationCount(opts) ==
    Cardinality(opts.Actions)
        + (IF TRANSLATE \in opts.Actions THEN Len(opts.Languages) ELSE 0)

\* An extend that puts the new results in front.
ExtendInFront(all, rs) == rs \o all

\* app.py:150: all_results.extend(results)
Extend(all, rs) == all \o rs

\* app.py:76
TranslatedResult(docx_bytes, title, translated_content, lang) ==
    [docx_bytes |-> docx_bytes, title |-> title \o <<"_", lang>>,
     api_response |-> translated_content, lang |-> lang]

\* app.py:81
OriginalResult(docx_bytes, title, content) ==
    [docx_bytes |-> docx_bytes, title |-> title,
     api_response |-> content, lang |-> "Original"]

\* app.py:279 and 293: f"{title}_{lang}.docx" over a result tuple.
FileName(result) == result.title \o <<"_", result.lang, ".docx">>

\* app.py:272-283: what one expander shows.
RenderItem(result) ==
    [expander |-> result.title \o <<" - ", result.lang>>,
     download |-> IF result.docx_bytes # NoneVal THEN FileName(result) ELSE NoneVal,
     error |-> result.docx_bytes = NoneVal]

----------------------------------------------------------------------------
(* Inputs and the environment *)

Prefix(list, n) == [k \in 1..n |-> list[k]]

\* True when the provider's answer is a failed or an empty one.
IsFault(raw) == raw = ApiError \/ Strip(raw) = <<>>

\* The provider and the exporter fail at most MaxFaults times in a run.
MayAnswer(raw) == IsFault(raw) => faults < MaxFaults
MayConvert(converted) == ~converted => faults < MaxFaults

Request(kind, content, lang) ==
    [kind |-> kind, article |-> i, lang |-> lang, content |-> content,
     perspectives |-> IF kind = "translate" THEN <<>> ELSE options.Perspective]

ArticleCount == Min(Len(titles), Len(contents))   \* zip(titles, contents)

----------------------------------------------------------------------------
(* State machine *)

\* main(): setup_main_content returns one title per content; setup_sidebar
\* returns the options.
Init ==
    /\ \E n \in 0..MaxArticles :
          /\ titles = [k \in 1..n |-> <<TitleList[k]>>]
          /\ contents \in [1..n -> Contents]
    /\ \E acts \in SUBSET AllActions, persp \in Perspectives, n \in 0..MaxLangs :
          options = [Actions |-> acts, Perspective |-> persp,
                     Languages |-> Prefix(LanguageList, n)]
    /\ pc = "start"
    /\ total_operations = 0
    /\ completed_operations = 0
    /\ progress = 0
    /\ all_results = <<>>
    /\ i = 1
    /\ results = <<>>
    /\ processed_content = <<>>
    /\ j = 1
    /\ inflight = {}
    /\ api_log = <<>>
    /\ last_response = NoneVal
    /\ sectioned = {}
    /\ faults = 0
    /\ rendered = <<>>
    /\ zip_file = [offered |-> FALSE, names |-> <<>>]

\* app.py:141-145
BatchBegin ==
    /\ pc = "start"
    /\ all_results' = <<>>
    /\ total_operations' = TotalOperations(titles, options)
    /\ progress' = 0
    /\ completed_operations' = 0
    /\ i' = 1
    /\ pc' = "loop"
    /\ UNCHANGED <<titles, contents, options, results, processed_content, j,
                   inflight, api_log, last_response, sectioned, faults, rendered,
                   zip_file>>

\* app.py:147-149 and 46-52: the loop takes the next pair and enters the pipeline.
ArticleBegin ==
    /\ pc = "loop"
    /\ i <= ArticleCount
    /\ results' = <<>>
    /\ processed_content' = contents[i]
    /\ j' = 1
    /\ pc' = "content"
    /\ UNCHANGED <<titles, contents, options, total_operations,
                   completed_operations, progress, all_results, i, inflight,
                   api_log, last_response, sectioned, faults, rendered, zip_file>>

\* app.py:55-56, 94: the Generate prompt is sent.
SendGenerate ==
    /\ pc = "content"
    /\ ContentStageCall(options.Actions) = "generate"
    /\ inflight' = inflight \cup {Request("generate", contents[i], "")}
    /\ api_log' = Append(api_log, Request("generate", contents[i], ""))
    /\ pc' = "await_generate"
    /\ UNCHANGED <<titles, contents, options, total_operations,
                   completed_operations, progress, all_results, i, results,
                   processed_content, j, last_response, sectioned, faults,
                   rendered, zip_file>>

\* app.py:94-98, 56-57: the provider answers the Generate prompt.
GenerateReturns ==
    /\ pc = "await_generate"
    /\ \E raw \in Completions :
          /\ MayAnswer(raw)
          /\ last_response' = raw
          /\ faults' = IF IsFault(raw) THEN faults + 1 ELSE faults
          /\ processed_content' = generate_content(contents[i], raw)
    /\ inflight' = {}
    /\ pc' = IF processed_content' = NoneVal THEN "raised" ELSE "perspective"
    /\ UNCHANGED <<titles, contents, options, total_operations,
                   completed_operations, progress, all_results, i, results, j,
                   api_log, sectioned, rendered, zip_file>>

\* app.py:58-59, 121: the Reauthor/Format prompt is sent.
SendReauthor ==
    /\ pc = "content"
    /\ ContentStageCall(options.Actions) = "reauthor"
    /\ inflight' = inflight \cup {Request("reauthor", processed_content, "")}
    /\ api_log' = Append(api_log, Request("reauthor", processed_content, ""))
    /\ pc' = "await_reauthor"
    /\ UNCHANGED <<titles, contents, options, total_operations,
                   completed_operations, progress, all_results, i, results,
                   processed_content, j, last_response, sectioned, faults,
                   rendered, zip_file>>

\* app.py:121-125, 59-60: the provider answers the Reauthor/Format prompt.
ReauthorReturns ==
    /\ pc = "await_reauthor"
    /\ \E raw \in Completions :
          /\ MayAnswer(raw)
          /\ last_response' = raw
          /\ faults' = IF IsFault(raw) THEN faults + 1 ELSE faults
          /\ processed_content' = reauthor_content(processed_content, raw)
    /\ inflight' = {}
    /\ pc' = IF processed_content' = NoneVal THEN "raised" ELSE "perspective"
    /\ UNCHANGED <<titles, contents, options, total_operations,
                   completed_operations, progress, all_results, i, results, j,
                   api_log, sectioned, rendered, zip_file>>

\* app.py:55-60: neither branch is taken.
SkipContentStage ==
    /\ pc = "content"
    /\ ContentStageCall(options.Actions) = "none"
    /\ pc' = "perspective"
    /\ UNCHANGED <<titles, contents, options, total_operations,
                   completed_operations, progress, all_results, i, results,
                   processed_content, j, inflight, api_log, last_response,
                   sectioned, faults, rendered, zip_file>>

\* app.py:62-65
PerspectiveStage ==
    /\ pc = "perspective"
    /\ IF ApplyPerspectives(options.Actions, options.Perspective)
       THEN /\ processed_content' =
                  create_perspective_sections(processed_content, options.Perspective)
            /\ sectioned' = sectioned \cup {i}
       ELSE UNCHANGED <<processed_content, sectioned>>
    /\ pc' = "translation"
    /\ UNCHANGED <<titles, contents, options, total_operations,
                   completed_operations, progress, all_results, i, results, j,
                   inflight, api_log, last_response, faults, rendered, zip_file>>

\* app.py:68-70, translate_content: the Translate prompt for the next language.
SendTranslate ==
    /\ pc = "translation"
    /\ TRANSLATE \in options.Actions
    /\ j <= Len(options.Languages)
    /\ inflight' = inflight
                      \cup {Request("translate", processed_content, options.Languages[j])}
    /\ api_log' = Append(api_log,
                         Request("translate", processed_content, options.Languages[j]))
    /\ pc' = "await_translate"
    /\ UNCHANGED <<titles, contents, options, total_operations,
                   completed_operations, progress, all_results, i, results,
                   processed_content, j, last_response, sectioned, faults,
                   rendered, zip_file>>

\* app.py:70-76: the provider answers, the translation is exported and recorded.
TranslateReturns ==
    /\ pc = "await_translate"
    /\ \E raw \in Completions, converted \in BOOLEAN :
          /\ MayAnswer(raw)
          /\ MayConvert(converted)
          /\ (IsFault(raw) /\ ~converted) => faults + 1 < MaxFaults
          /\ last_response' = raw
          /\ faults' = faults + (IF IsFault(raw) THEN 1 ELSE 0)
                               + (IF converted THEN 0 ELSE 1)
          /\ LET translated_content ==
                     prompt_utils_translate_content(processed_content, raw)
                 lang == options.Languages[j]
             IN  IF translated_content = NoneVal
                 THEN /\ pc' = "raised"            \* app.py:71: None[:100]
                      /\ UNCHANGED <<results, j>>
                 ELSE /\ results' = Append(results,
                             TranslatedResult(save_as_word(translated_content, converted),
                                              titles[i], translated_content, lang))
                      /\ j' = j + 1
                      /\ pc' = "translation"
    /\ inflight' = {}
    /\ UNCHANGED <<titles, contents, options, total_operations,
                   completed_operations, progress, all_results, i,
                   processed_content, api_log, sectioned, rendered, zip_file>>

\* app.py:69: the language list is exhausted.
TranslationDone ==
    /\ pc = "translation"
    /\ TRANSLATE \in options.Actions
    /\ j > Len(options.Languages)
    /\ pc' = "return"
    /\ UNCHANGED <<titles, contents, options, total_operations,
                   completed_operations, progress, all_results, i, results,
                   processed_content, j, inflight, api_log, last_response,
                   sectioned, faults, rendered, zip_file>>

\* app.py:77-81: no translation, the processed content is exported once.
ExportOriginal ==
    /\ pc = "translation"
    /\ TRANSLATE \notin options.Actions
    /\ \E converted \in BOOLEAN :
          /\ MayConvert(converted)
          /\ faults' = faults + (IF converted THEN 0 ELSE 1)
          /\ results' = Append(results,
                 OriginalResult(save_as_word(processed_content, converted),
                                titles[i], processed_content))
    /\ pc' = "return"
    /\ UNCHANGED <<titles, contents, options, total_operations,
                   completed_operations, progress, all_results, i,
                   processed_content, j, inflight, api_log, last_response,
                   sectioned, rendered, zip_file>>

\* app.py:83 and 149-153: the pipeline returns; the batch records the article.
ArticleReturn ==
    /\ pc = "return"
    /\ all_results' = Extend(all_results, results)
    /\ completed_operations' = completed_operations + OperationCount(options)
    /\ IF total_operations = 0
       THEN /\ pc' = "raised"                    \* app.py:153: ZeroDivisionError
            /\ UNCHANGED <<progress, i>>
       ELSE /\ progress' = (completed_operations' * 100) \div total_operations
            /\ i' = i + 1
            /\ pc' = "loop"
    /\ UNCHANGED <<titles, contents, options, total_operations, results,
                   processed_content, j, inflight, api_log, last_response,
                   sectioned, faults, rendered, zip_file>>

\* app.py:147 and 155: zip() is exhausted, the batch returns all_results.
BatchReturn ==
    /\ pc = "loop"
    /\ i > ArticleCount
    /\ pc' = "done"
    /\ UNCHANGED <<titles, contents, options, total_operations,
                   completed_operations, progress, all_results, i, results,
                   processed_content, j, inflight, api_log, last_response,
                   sectioned, faults, rendered, zip_file>>

\* app.py:292-293: writestr calls getvalue() on every result's docx_bytes.
ZipRaises(rs) == \E k \in 1..Len(rs) : rs[k].docx_bytes = NoneVal

\* app.py:289-300
create_zip_download(rs) ==
    [offered |-> TRUE, names |-> [k \in 1..Len(rs) |-> FileName(rs[k])]]

\* app.py:257 and 270-286
DisplayResults ==
    /\ pc = "done"
    /\ rendered' = [k \in 1..Len(all_results) |-> RenderItem(all_results[k])]
    /\ IF Len(all_results) > 1
       THEN IF ZipRaises(all_results)
            THEN /\ pc' = "display_raised"       \* app.py:293: None.getvalue()
                 /\ UNCHANGED zip_file
            ELSE /\ zip_file' = create_zip_download(all_results)
                 /\ pc' = "displayed"
       ELSE /\ pc' = "displayed"
            /\ UNCHANGED zip_file
    /\ UNCHANGED <<titles, contents, options, total_operations,
                   completed_operations, progress, all_results, i, results,
                   processed_content, j, inflight, api_log, last_response,
                   sectioned, faults>>

Next ==
    \/ BatchBegin
    \/ ArticleBegin
    \/ SendGenerate
    \/ GenerateReturns
    \/ SendReauthor
    \/ ReauthorReturns
    \/ SkipContentStage
    \/ PerspectiveStage
    \/ SendTranslate
    \/ TranslateReturns
    \/ TranslationDone
    \/ ExportOriginal
    \/ ArticleReturn
    \/ BatchReturn
    \/ DisplayResults

Spec == Init /\ [][Next]_vars

----------------------------------------------------------------------------
(* Properties *)

Actions == options.Actions
Languages == options.Languages

\* The requests of the log that belong to article a and are of one of the kinds.
RequestsOf(a, kinds) ==
    {k \in 1..Len(api_log) : api_log[k].article = a /\ api_log[k].kind \in kinds}

\* The control thread is inside the pipeline of article i, past its content stage.
PastContentStage ==
    pc \in {"perspective", "translation", "await_translate", "return"}

\* The control thread is inside the pipeline of article i, past its perspective stage.
PastPerspectiveStage == pc \in {"translation", "await_translate", "return"}

\* C1: process_article_async returns len(L) results when Translate is requested
\* and L is nonempty, and exactly one result in every other case.
C1_ResultCount ==
    pc = "return" =>
        Len(results) = IF TRANSLATE \in Actions /\ Languages # <<>>
                       THEN Len(Languages)
                       ELSE 1

C4_BatchCompletes == pc # "raised"

\* The passes the glossary counts: one content pass, one pass per language.
CountablePasses ==
    (IF ContentStageCall(Actions) # "none" THEN 1 ELSE 0)
        + (IF TRANSLATE \in Actions THEN Len(Languages) ELSE 0)

\* C5 as stated: an article contributes one operation for the content pass plus
\* one per translation language (3 for Generate + Translate into two languages).
C5_CountsPasses ==
    pc # "start" => total_operations = Len(titles) * CountablePasses

\* C5 as amended: an article contributes one operation per selected action plus,
\* when Translate is selected, one per translation language, to the total and to
\* every advance of completed_operations (4 for Generate + Translate into two
\* languages).
C5_CountsActions ==
    /\ [](pc # "start" =>
            /\ total_operations =
                  Len(titles) * (Cardinality(Actions)
                      + (IF TRANSLATE \in Actions THEN Len(Languages) ELSE 0))
            /\ (Actions = {GENERATE, TRANSLATE} /\ Len(Languages) = 2)
                  => total_operations = Len(titles) * 4)
    /\ [][pc = "return" =>
            /\ completed_operations' = completed_operations + Cardinality(Actions)
                  + (IF TRANSLATE \in Actions THEN Len(Languages) ELSE 0)
            /\ (Actions = {GENERATE, TRANSLATE} /\ Len(Languages) = 2)
                  => completed_operations' = completed_operations + 4]_vars

C5_Witness ==
    /\ pc = "done"
    /\ Len(titles) = 1
    /\ Actions = {GENERATE, TRANSLATE}
    /\ Len(Languages) = 2
    /\ completed_operations = 4
    /\ total_operations = 4

\* C6: when a result's export failed, display_results still runs to its end,
\* shows the error for that result only, offers every other result's download
\* and, with more than one result, offers the archive.
C6_ExportFailureIsolated ==
    /\ pc # "display_raised"
    /\ pc = "displayed" =>
          /\ Len(rendered) = Len(all_results)
          /\ \A k \in 1..Len(rendered) :
                rendered[k].error <=> all_results[k].docx_bytes = NoneVal
          /\ Len(all_results) > 1 => zip_file.offered

\* The article a result belongs to: titles are distinct and a result's title
\* begins with the article's.
ArticleOf(result) ==
    CHOOSE a \in 1..Len(titles) : Head(titles[a]) = Head(result.title)

\* C7: every download, and every archive entry, is named {title}_{language_tag}.docx
\* with the article's title.
C7_FileNames ==
    pc = "displayed" =>
        \A k \in 1..Len(all_results) :
            LET name == titles[ArticleOf(all_results[k])]
                            \o <<"_", all_results[k].lang, ".docx">>
            IN  /\ ~rendered[k].error => rendered[k].download = name
                /\ zip_file.offered => zip_file.names[k] = name

\* C8: create_perspective_sections runs for an article exactly when perspectives
\* were requested and reauthor_content was not called for it.
C8_SectioningIffNoReauthor ==
    PastPerspectiveStage =>
        (i \in sectioned
            <=> (options.Perspective # <<>> /\ RequestsOf(i, {"reauthor"}) = {}))

\* C9: the content stage sends at most one request per article: Generate when
\* Generate Content is selected, else Reauthor/Format when one of them is selected,
\* else none, and then the content is unchanged; with Generate Content alone and
\* no perspectives or languages the article costs one request and yields one
\* result tagged Original.
C9_OneContentCall ==
    /\ PastContentStage =>
          /\ Cardinality(RequestsOf(i, {"generate", "reauthor"})) <= 1
          /\ GENERATE \in Actions =>
                /\ Cardinality(RequestsOf(i, {"generate"})) = 1
                /\ RequestsOf(i, {"reauthor"}) = {}
          /\ (GENERATE \notin Actions /\ (REAUTHOR \in Actions \/ FORMAT \in Actions)) =>
                /\ Cardinality(RequestsOf(i, {"reauthor"})) = 1
                /\ RequestsOf(i, {"generate"}) = {}
          /\ Actions \cap {GENERATE, REAUTHOR, FORMAT} = {} =>
                RequestsOf(i, {"generate", "reauthor"}) = {}
    /\ (pc = "perspective" /\ Actions \cap {GENERATE, REAUTHOR, FORMAT} = {})
          => processed_content = contents[i]
    /\ (pc = "return" /\ Actions = {GENERATE} /\ options.Perspective = <<>>
            /\ Languages = <<>>)
          => /\ Cardinality(RequestsOf(i, {"generate", "reauthor", "translate"})) = 1
             /\ Len(results) = 1
             /\ results[1].lang = "Original"

C9_Witness ==
    /\ pc = "return"
    /\ Actions = {GENERATE}
    /\ options.Perspective = <<>>
    /\ Languages = <<>>
    /\ Cardinality(RequestsOf(i, {"generate"})) = 1
    /\ results[1].lang = "Original"
    /\ results[1].docx_bytes # NoneVal

\* The (article, language tag) pairs of a list of results.
Tags(rs) == [k \in 1..Len(rs) |-> <<Head(rs[k].title), rs[k].lang>>]

\* The pairs article a produces: one per language in list order, else Original.
ExpectedTags(a) ==
    IF TRANSLATE \in Actions
    THEN [k \in 1..Len(Languages) |-> <<Head(titles[a]), Languages[k]>>]
    ELSE << <<Head(titles[a]), "Original">> >>

RECURSIVE ExpectedUpTo(_)
ExpectedUpTo(n) == IF n = 0 THEN <<>> ELSE ExpectedUpTo(n - 1) \o ExpectedTags(n)

\* C10: at most one request is outstanding; while article i is in the pipeline
\* the cumulative list holds exactly the results of articles 1..i-1, in article
\* and language order, so does the returned list for all articles; and
\* completed_operations changes only when an article returns.
C10_Sequential ==
    /\ [](Cardinality(inflight) <= 1)
    /\ [](\A r \in inflight : r.article = i /\ Tags(all_results) = ExpectedUpTo(i - 1))
    /\ [](pc \in {"loop", "content", "await_generate", "await_reauthor",
                   "perspective", "translation", "await_translate", "return"}
             => Tags(all_results) = ExpectedUpTo(i - 1))
    /\ [](pc = "done" => Tags(all_results) = ExpectedUpTo(Len(titles)))
    /\ [][completed_operations' # completed_operations => pc = "return"]_vars

C10_Witness ==
    /\ pc = "done"
    /\ Len(titles) = 2
    /\ Len(all_results) = 4
    /\ Cardinality(RequestsOf(2, {"translate"})) = 2

====
